---- MODULE Spec2Model ----
(***************************************************************************)
(* Model of read_until/read_until.py: the ReadCache (an OrderedDict of     *)
(* bounded size with the loss counters .missed and .replaced) and the      *)
(* ReadUntil.get_read_chunks facade over it.                               *)
(*                                                                         *)
(* ReadCache.__setitem__, popitem and popitems each run wholly inside      *)
(* `with self.lock`, so each is one atomic action; any interleaving of a   *)
(* producer thread with consumer threads is an interleaving of these       *)
(* actions, whichever thread makes the call.  __len__ takes no lock, so    *)
(* the lengths the dict passes through inside one __setitem__ are recorded *)
(* in op.lens.                                                             *)
(*                                                                         *)
(* A session (ReadUntil.run) is three threads: run itself, which consumes  *)
(* the inbound stream in _process_reads; the thread of the RPC library     *)
(* that pulls the _runner generator for outbound messages; and the         *)
(* consumers calling the facade.  Each step between two accesses to shared *)
(* state (action_queue, data_queue, running) is one action.  Time is      *)
(* counted in throttle intervals; `now` is the last reading of the clock,  *)
(* and every reading is that or later.  The RPC library pulls the          *)
(* generator only while the call is live, so _runner makes no step once    *)
(* the inbound stream has ended or failed.                                 *)
(***************************************************************************)
EXTENDS Integers, Sequences, FiniteSets, TLC

\* ---- bounds of the model ------------------------------------------------
MaxSize == 2          \* cache sizes 1..MaxSize
MaxChannel == 3       \* channels 1..MaxChannel
MaxPuts == 3          \* number of puts in one behaviour
MaxBatch == 2         \* batch_size 0..MaxBatch
MaxTime == 2          \* the clock reads 0..MaxTime
MaxRunTime == 1       \* run_time 0..MaxRunTime
MaxActionBatch == 2   \* action_batch 1..MaxActionBatch
MaxActions == 2       \* actions enqueued in one behaviour
MaxMsgs == 1          \* inbound messages in one behaviour

Channels == 1..MaxChannel
\* Read numbers: the cache only ever tests two of them for equality
\* (`v.number == value.number`, the incoming chunk against one entry), so two
\* values give every outcome of every comparison.
Numbers == {5, 7}

VARIABLES
    size,        \* ReadCache.size
    dict,        \* ReadCache.dict: sequence of [key, value], oldest first
    missed,      \* ReadCache.missed
    replaced,    \* ReadCache.replaced
    total_puts,  \* history: number of __setitem__ calls made
    delivered,   \* history: number of entries returned by pops
    latest,      \* history: per channel, the chunk of the last put (its start)
    op,          \* the last call made on the cache: its name, what it
                 \* returned or raised, the lengths the dict passed through
    rt,          \* position of a client running put;pop_one;put;pop_one
    conf,        \* one_chunk, filter_strands and the arguments of _runner
    action_queue,\* ReadUntil.action_queue, oldest first
    running,     \* ReadUntil.running.is_set()
    run,         \* where run() is
    runner,      \* the _runner generator: where it is and its locals
    pr,          \* _process_reads: where it is and the chunks still to do
    stream,      \* the inbound stream `reads`
    out,         \* the outbound stream: the messages _runner has yielded
    now,         \* time.time()
    hist         \* history: ids given out, messages received, drain records

cvars == <<size, dict, missed, replaced, total_puts, delivered, latest, op>>
svars == <<conf, action_queue, running, run, runner, pr, stream, out, now, hist>>
vars == <<size, dict, missed, replaced, total_puts, delivered, latest, op, rt,
          conf, action_queue, running, run, runner, pr, stream, out, now, hist>>

\* A chunk (ReadData): its read number and its chunk_start_sample.
NoChunk == [number |-> 0, start |-> 0]

\* ---- OrderedDict ----------------------------------------------------------
Keys(d) == {d[i].key : i \in 1..Len(d)}

\* d[key] for a key of d
OD_getitem(d, key) == d[CHOOSE i \in 1..Len(d) : d[i].key = key].value

\* OrderedDict.popitem(last) on a non-empty dict: the removed item and the rest
OD_popitem(d, last) ==
    IF last
    THEN [item |-> d[Len(d)], dict |-> SubSeq(d, 1, Len(d) - 1)]
    ELSE [item |-> d[1], dict |-> SubSeq(d, 2, Len(d))]

\* del d[key]
OD_delitem(d, key) == SelectSeq(d, LAMBDA e : e.key # key)

\* d[key] = value: an existing key keeps its position, a new key goes last
OD_setitem_front(d, key, value) ==
    IF key \in Keys(d)
    THEN [i \in 1..Len(d) |-> IF d[i].key = key
                              THEN [key |-> key, value |-> value] ELSE d[i]]
    ELSE <<[key |-> key, value |-> value]>> \o d

OD_setitem(d, key, value) ==
    IF key \in Keys(d)
    THEN [i \in 1..Len(d) |-> IF d[i].key = key
                              THEN [key |-> key, value |-> value] ELSE d[i]]
    ELSE Append(d, [key |-> key, value |-> value])

\* ---- ReadCache ------------------------------------------------------------
\* `while len(self.dict) >= self.size`
SetItemFull_gt(len, sz) == len > sz

SetItemFull(len, sz) == len >= sz

\* the end the eviction loop pops from: `self.dict.popitem(last=False)`
EvictLast_newest == TRUE

EvictLast == FALSE

\* `k == key and v.number == value.number`
SameRead(k, v, key, value) == k = key /\ v.number = value.number

\* The eviction loop of __setitem__ on c = [size, dict, missed, replaced,
\* counted, lens]; lens collects the lengths the dict passes through.
RECURSIVE EvictLoop(_, _, _)
EvictLoop(c, key, value) ==
    IF SetItemFull(Len(c.dict), c.size)
    THEN LET p == OD_popitem(c.dict, EvictLast)
             same == SameRead(p.item.key, p.item.value, key, value)
         IN  EvictLoop([c EXCEPT !.counted = TRUE,
                                 !.dict = p.dict,
                                 !.replaced = IF same THEN @ + 1 ELSE @,
                                 !.missed = IF same THEN @ ELSE @ + 1,
                                 !.lens = @ \cup {Len(p.dict)}],
                       key, value)
    ELSE c

\* The second half of __setitem__: the key is resident after the loop.
SetItemResident(c, key, value) ==
    LET same == OD_getitem(c.dict, key).number = value.number
        acc == IF c.counted THEN c
               ELSE [c EXCEPT !.replaced = IF same THEN @ + 1 ELSE @,
                              !.missed = IF same THEN @ ELSE @ + 1]
        d1 == OD_delitem(acc.dict, key)
    IN  [acc EXCEPT !.dict = d1, !.lens = @ \cup {Len(d1)}]

\* A __setitem__ that leaves a resident key's entry as it is.
ReadCache_setitem_stale(c, key, value) ==
    LET c0 == [size |-> c.size, dict |-> c.dict, missed |-> c.missed,
               replaced |-> c.replaced, counted |-> FALSE,
               lens |-> {Len(c.dict)}]
        c1 == EvictLoop(c0, key, value)
    IN  IF key \in Keys(c1.dict) THEN c1
        ELSE [c1 EXCEPT !.dict = OD_setitem(c1.dict, key, value),
                        !.lens = @ \cup {Len(c1.dict) + 1}]

\* ReadCache.__setitem__(key, value)
ReadCache_setitem(c, key, value) ==
    LET c0 == [size |-> c.size, dict |-> c.dict, missed |-> c.missed,
               replaced |-> c.replaced, counted |-> FALSE,
               lens |-> {Len(c.dict)}]
        c1 == EvictLoop(c0, key, value)
        c2 == IF key \in Keys(c1.dict) THEN SetItemResident(c1, key, value)
              ELSE c1
        d3 == OD_setitem(c2.dict, key, value)
    IN  [c2 EXCEPT !.dict = d3, !.lens = @ \cup {Len(d3)}]

\* ReadCache.popitem(last): KeyError on an empty dict, else one item removed
ReadCache_popitem_newest(d, last) ==
    IF d = <<>>
    THEN [err |-> "KeyError", ret |-> <<>>, dict |-> d]
    ELSE LET p == OD_popitem(d, TRUE)
         IN  [err |-> "none", ret |-> <<p.item>>, dict |-> p.dict]

ReadCache_popitem(d, last) ==
    IF d = <<>>
    THEN [err |-> "KeyError", ret |-> <<>>, dict |-> d]
    ELSE LET p == OD_popitem(d, last)
         IN  [err |-> "none", ret |-> <<p.item>>, dict |-> p.dict]

\* the default of popitem's `last`
PopItemDefaultLast_oldest == FALSE

PopItemDefaultLast == TRUE

\* The loop of popitems: `for _ in range(items)` with KeyError passed over.
RECURSIVE PopLoop(_, _, _, _)
PopLoop(d, data, n, last) ==
    IF n <= 0 THEN [err |-> "none", ret |-> data, dict |-> d]
    ELSE IF d = <<>> THEN PopLoop(d, data, n - 1, last)
    ELSE LET p == OD_popitem(d, last)
         IN  PopLoop(p.dict, Append(data, p.item), n - 1, last)

\* A popitems that runs its loop once more than asked.
ReadCache_popitems_extra(d, items, last) == PopLoop(d, <<>>, items + 1, last)

\* ReadCache.popitems(items, last)
ReadCache_popitems(d, items, last) == PopLoop(d, <<>>, items, last)

\* ---- ReadUntil ------------------------------------------------------------
\* ReadUntil.get_read_chunks(batch_size, last)
get_read_chunks_peek(d, batch_size, last) ==
    [ReadCache_popitems(d, batch_size, TRUE) EXCEPT !.dict = d]

get_read_chunks(d, batch_size, last) == ReadCache_popitems(d, batch_size, TRUE)

\* ---- state machine ----------------------------------------------------------
Cache == [size |-> size, dict |-> dict, missed |-> missed, replaced |-> replaced]

NoOp == [name |-> "init", err |-> "none", ret |-> <<>>, lens |-> {}]

RTIdle == [pc |-> 0, key |-> 0, value |-> NoChunk,
           pre |-> [dict |-> <<>>, missed |-> 0, replaced |-> 0],
           first |-> <<>>, second |-> <<>>]

\* ReadUntil.ALLOWED_MIN_CHUNK_SIZE, and the default of _runner's min_chunk_size
ALLOWED_MIN_CHUNK_SIZE == 4000
DefaultMinChunkSize == 2000

\* ReadUntil.__init__ with its defaults for filter_strands and one_chunk;
\* run_time and action_batch are the arguments _runner will be given
DefaultConf == [one_chunk |-> TRUE, filter_strands |-> TRUE,
                run_time |-> MaxRunTime, action_batch |-> MaxActionBatch,
                min_chunk_size |-> DefaultMinChunkSize]

NoRunner == [pc |-> "none", timeout_pt |-> 0, t0 |-> 0, actions |-> <<>>]

NoPr == [pc |-> "none", todo |-> <<>>, read_count |-> 0]

NoHist == [next_id |-> 1, msgs |-> 0, stops |-> {}, drain_len |-> 0,
           drain_put |-> FALSE, reset_id |-> 0, puts |-> {}]

\* ReadCache.__init__(size): size < 1 raises, so a cache has size >= 1
InitCache ==
    /\ size \in 1..MaxSize
    /\ dict = <<>>
    /\ missed = 0
    /\ replaced = 0
    /\ total_puts = 0
    /\ delivered = 0
    /\ latest = [c \in Channels |-> 0]
    /\ op = NoOp
    /\ rt = RTIdle

\* ReadUntil.__init__: an empty action_queue, running not set, no session yet
InitClient ==
    /\ action_queue = <<>>
    /\ running = FALSE
    /\ run = "idle"
    /\ runner = NoRunner
    /\ pr = NoPr
    /\ stream = "none"
    /\ out = <<>>
    /\ now = 0
    /\ hist = NoHist

Init == InitCache /\ InitClient /\ conf = DefaultConf

\* the effect of `cache[key] = value`
DoSetItem(key, value) ==
    LET c == ReadCache_setitem(Cache, key, value)
    IN  /\ dict' = c.dict
        /\ missed' = c.missed
        /\ replaced' = c.replaced
        /\ total_puts' = total_puts + 1
        /\ latest' = [latest EXCEPT ![key] = value.start]
        /\ op' = [NoOp EXCEPT !.name = "setitem", !.lens = c.lens]
        /\ UNCHANGED <<size, delivered>>

\* the effect of a pop that came back with r = [err, ret, dict]
DoPop(name, r) ==
    /\ dict' = r.dict
    /\ delivered' = delivered + Len(r.ret)
    /\ op' = [NoOp EXCEPT !.name = name, !.err = r.err, !.ret = r.ret]
    /\ UNCHANGED <<size, missed, replaced, total_puts, latest>>

\* The producer (_process_reads, `self.data_queue[read_channel] = read`)
\* stores the chunk of read `number` that starts at the next sample.
SetItem(key, number) ==
    /\ rt.pc = 0
    /\ total_puts < MaxPuts
    /\ DoSetItem(key, [number |-> number, start |-> total_puts + 1])
    /\ UNCHANGED <<rt, svars>>

\* cache.popitem(last)
PopItem(last) ==
    /\ rt.pc = 0
    /\ DoPop("popitem", ReadCache_popitem(dict, last))
    /\ UNCHANGED <<rt, svars>>

\* cache.popitems(items, last)
PopItems(items, last) ==
    /\ rt.pc = 0
    /\ DoPop("popitems", ReadCache_popitems(dict, items, last))
    /\ UNCHANGED <<rt, svars>>

\* a consumer calls client.get_read_chunks(batch_size, last)
GetReadChunks(batch_size, last) ==
    /\ rt.pc = 0
    /\ DoPop("get_read_chunks", get_read_chunks(dict, batch_size, last))
    /\ UNCHANGED <<rt, svars>>

Next ==
    \/ \E key \in Channels, number \in Numbers : SetItem(key, number)
    \/ \E last \in BOOLEAN : PopItem(last)
    \/ \E items \in 0..MaxBatch, last \in BOOLEAN : PopItems(items, last)
    \/ \E batch_size \in 0..MaxBatch, last \in BOOLEAN :
          GetReadChunks(batch_size, last)

Spec == Init /\ [][Next]_vars

\* ---- a client running put(c, x); pop_one(); put(c, x); pop_one() ----------
\* cache[c] = x on a cache that is not full and does not hold c
RTPut1(c, number) ==
    /\ rt.pc = 0
    /\ c \notin Keys(dict)
    /\ Len(dict) < size
    /\ total_puts + 2 <= MaxPuts
    /\ LET x == [number |-> number, start |-> total_puts + 1]
       IN  /\ DoSetItem(c, x)
           /\ rt' = [RTIdle EXCEPT !.pc = 1, !.key = c, !.value = x,
                        !.pre = [dict |-> dict, missed |-> missed,
                                 replaced |-> replaced]]
           /\ UNCHANGED svars

\* cache.popitem()
RTPop1 ==
    /\ rt.pc = 1
    /\ LET r == ReadCache_popitem(dict, PopItemDefaultLast)
       IN  /\ DoPop("popitem", r)
           /\ rt' = [rt EXCEPT !.pc = 2, !.first = r.ret]
           /\ UNCHANGED svars

\* cache[c] = x again
RTPut2 ==
    /\ rt.pc = 2
    /\ DoSetItem(rt.key, rt.value)
    /\ rt' = [rt EXCEPT !.pc = 3]
    /\ UNCHANGED svars

\* cache.popitem() again
RTPop2 ==
    /\ rt.pc = 3
    /\ LET r == ReadCache_popitem(dict, PopItemDefaultLast)
       IN  /\ DoPop("popitem", r)
           /\ rt' = [rt EXCEPT !.pc = 4, !.second = r.ret]
           /\ UNCHANGED svars

RTEnd ==
    /\ rt.pc = 4
    /\ rt' = RTIdle
    /\ UNCHANGED <<cvars, svars>>

NextRT ==
    \/ Next
    \/ \E c \in Channels, number \in Numbers : RTPut1(c, number)
    \/ RTPop1
    \/ RTPut2
    \/ RTPop2
    \/ RTEnd

SpecRT == Init /\ [][NextRT]_vars

\* ---- a client running put(c, x) on a resident channel c; pop_one() --------
\* cache[c] = x on a cache that holds c
RePut(c, number) ==
    /\ rt.pc = 0
    /\ c \in Keys(dict)
    /\ total_puts < MaxPuts
    /\ LET x == [number |-> number, start |-> total_puts + 1]
       IN  /\ DoSetItem(c, x)
           /\ rt' = [RTIdle EXCEPT !.pc = 5, !.key = c, !.value = x,
                        !.pre = [dict |-> dict, missed |-> missed,
                                 replaced |-> replaced]]
           /\ UNCHANGED svars

\* cache.popitem(last=True)
RePop ==
    /\ rt.pc = 5
    /\ LET r == ReadCache_popitem(dict, TRUE)
       IN  /\ DoPop("popitem", r)
           /\ rt' = [rt EXCEPT !.pc = 6, !.first = r.ret]
           /\ UNCHANGED svars

ReEnd ==
    /\ rt.pc = 6
    /\ rt' = RTIdle
    /\ UNCHANGED <<cvars, svars>>

NextRe ==
    \/ Next
    \/ \E c \in Channels, number \in Numbers : RePut(c, number)
    \/ RePop
    \/ ReEnd

SpecRe == Init /\ [][NextRe]_vars

\* ---- the session: ReadUntil.run, _runner, _process_reads ------------------
\* action_throttle, the unit of the clock
ActionThrottle == 1

\* The classification map the sequencer reports and the codes __init__
\* keeps as strand-like.
read_classes == (83 :> "strand") @@ (77 :> "multiple") @@ (65 :> "adapter")

allowed_classes == {"strand", "strand1", "adapter", "unavailable"}

strand_classes ==
    {k \in DOMAIN read_classes : read_classes[k] \in allowed_classes}

\* chunk_classifications of the chunks the sequencer sends; 99 is a code
\* the classification map does not have
ClassLists == {<<77>>, <<99>>, <<77, 65>>}

\* `any([x in self.strand_classes for x in read.chunk_classifications])`
strand_like_all(classes) ==
    \A i \in 1..Len(classes) : classes[i] \in strand_classes

strand_like(classes) ==
    \E i \in 1..Len(classes) : classes[i] \in strand_classes

\* `if not self.filter_strands or strand_like`
KeepChunk(filter_strands, classes) == ~filter_strands \/ strand_like(classes)

\* the chunks of an inbound message, `reads_chunk.channels`; _process_reads
\* treats every channel alike, so the chunks arrive on one
InChannels == {1}

InChunks == [channel : InChannels, number : Numbers, classes : ClassLists]

InboundMsgs == {<<>>} \cup {<<c>> : c \in InChunks}

\* queue.Queue: put at the tail, get_nowait from the head
Queue_put(q, x) == Append(q, x)

Queue_get_nowait_newest(q) ==
    [item |-> q[Len(q)], queue |-> SubSeq(q, 1, Len(q) - 1)]

Queue_get_nowait_peek(q) == [item |-> Head(q), queue |-> q]

Queue_get_nowait(q) == [item |-> Head(q), queue |-> Tail(q)]

\* `while t0 < timeout_pt`
LoopTest_le(t0, timeout_pt) == t0 <= timeout_pt

LoopTest(t0, timeout_pt) == t0 < timeout_pt

\* `if n_actions > 0`
YieldTest_always(n_actions) == TRUE

YieldTest(n_actions) == n_actions > 0

\* `if min_chunk_size > self.ALLOWED_MIN_CHUNK_SIZE: min_chunk_size = ...`
ClampMinChunkSize_none(min_chunk_size) == min_chunk_size

ClampMinChunkSize(min_chunk_size) ==
    IF min_chunk_size > ALLOWED_MIN_CHUNK_SIZE
    THEN ALLOWED_MIN_CHUNK_SIZE ELSE min_chunk_size

SetupMsg_actions ==
    [type |-> "actions", actions |-> <<>>,
     sample_minimum_chunk_size |-> ClampMinChunkSize(conf.min_chunk_size)]

\* GetLiveReadsRequest(setup=StreamSetup(...))
SetupMsg ==
    [type |-> "setup", actions |-> <<>>,
     sample_minimum_chunk_size |-> ClampMinChunkSize(conf.min_chunk_size)]

ActionsMsg_first(actions) == [type |-> "actions", actions |-> SubSeq(actions, 1, 1)]

ActionsMsg(actions) == [type |-> "actions", actions |-> actions]

DoPutAction_sameid(read_channel, read_number, action, by_policy) ==
    /\ action_queue' =
          Queue_put(action_queue,
                    [id |-> 1, channel |-> read_channel,
                     number |-> read_number, kind |-> action])
    /\ hist' = [hist EXCEPT !.next_id = @ + 1,
                   !.drain_put = @ \/ runner.pc = "drain",
                   !.stops = IF by_policy THEN @ \cup {hist.next_id} ELSE @,
                   !.puts = @ \cup {[id |-> hist.next_id,
                                     channel |-> read_channel,
                                     number |-> read_number,
                                     kind |-> action]}]

\* ReadUntil._put_action: a fresh action_id, then action_queue.put.
\* by_policy says the call is the one _process_reads makes under one_chunk.
DoPutAction(read_channel, read_number, action, by_policy) ==
    /\ action_queue' =
          Queue_put(action_queue,
                    [id |-> hist.next_id, channel |-> read_channel,
                     number |-> read_number, kind |-> action])
    /\ hist' = [hist EXCEPT !.next_id = @ + 1,
                   !.drain_put = @ \/ runner.pc = "drain",
                   !.stops = IF by_policy THEN @ \cup {hist.next_id} ELSE @,
                   !.puts = @ \cup {[id |-> hist.next_id,
                                     channel |-> read_channel,
                                     number |-> read_number,
                                     kind |-> action]}]

\* a consumer calls client.unblock_read(read_channel, read_number)
UnblockRead(read_channel, read_number) ==
    /\ hist.next_id <= MaxActions
    /\ DoPutAction(read_channel, read_number, "unblock", FALSE)
    /\ UNCHANGED <<cvars, rt, conf, running, run, runner, pr, stream, out, now>>

\* time.time(): the clock is only seen where it is read, and a read gives
\* the last reading or a later time
Clock(t) == now <= t /\ t <= IF now > MaxTime THEN now ELSE MaxTime

\* run(): `self.running.set()`, the generator is made and handed to
\* get_live_reads, and _process_reads starts waiting on the stream
RunStart ==
    /\ run = "idle"
    /\ running' = TRUE
    /\ run' = "processing"
    /\ runner' = [NoRunner EXCEPT !.pc = "start"]
    /\ pr' = [NoPr EXCEPT !.pc = "wait"]
    /\ stream' = "open"
    /\ UNCHANGED <<cvars, rt, conf, action_queue, out, now, hist>>

\* _runner up to its first yield: `timeout_pt = time.time() + run_time`, and
\* the setup message goes out.  This is the first reading of the clock, and
\* the origin of the time scale.
RunnerSetup ==
    /\ runner.pc = "start" /\ stream = "open"
    /\ runner' = [runner EXCEPT !.pc = "setup_sent",
                                !.timeout_pt = now + conf.run_time]
    /\ out' = Append(out, SetupMsg)
    /\ UNCHANGED <<cvars, rt, conf, action_queue, running, run, pr, stream,
                   now, hist>>

\* resumed after the setup message: `t0 = time.time()`
RunnerResume ==
    /\ runner.pc = "setup_sent" /\ stream = "open"
    /\ \E t \in 0..MaxTime :
          /\ Clock(t)
          /\ now' = t
          /\ runner' = [runner EXCEPT !.pc = "test", !.t0 = t]
    /\ UNCHANGED <<cvars, rt, conf, action_queue, running, run, pr, stream,
                   out, hist>>

\* `while t0 < timeout_pt:` and, inside, `t0 = time.time()`, `actions = list()`;
\* when the test fails the generator ends and the outbound half closes
RunnerTest ==
    /\ runner.pc = "test" /\ stream = "open"
    /\ IF LoopTest(runner.t0, runner.timeout_pt)
       THEN /\ \E t \in 0..(MaxTime + ActionThrottle) :
                  /\ Clock(t)
                  /\ now' = t
                  /\ runner' = [runner EXCEPT !.pc = "drain", !.t0 = t,
                                              !.actions = <<>>]
            /\ hist' = [hist EXCEPT !.drain_len = Len(action_queue),
                                    !.drain_put = FALSE]
       ELSE /\ runner' = [runner EXCEPT !.pc = "done"]
            /\ UNCHANGED <<now, hist>>
    /\ UNCHANGED <<cvars, rt, conf, action_queue, running, run, pr, stream,
                   out>>

\* one turn of `for _ in range(action_batch)`: get_nowait, break on Empty
RunnerGet ==
    /\ runner.pc = "drain" /\ stream = "open"
    /\ IF Len(runner.actions) < conf.action_batch /\ action_queue # <<>>
       THEN LET g == Queue_get_nowait(action_queue)
            IN  /\ action_queue' = g.queue
                /\ runner' = [runner EXCEPT !.actions = Append(@, g.item)]
       ELSE /\ runner' = [runner EXCEPT !.pc = "emit"]
            /\ action_queue' = action_queue
    /\ UNCHANGED <<cvars, rt, conf, running, run, pr, stream, out, now, hist>>

\* `if n_actions > 0: yield action_group`
RunnerYield ==
    /\ runner.pc = "emit" /\ stream = "open"
    /\ out' = IF YieldTest(Len(runner.actions))
              THEN Append(out, ActionsMsg(runner.actions)) ELSE out
    /\ runner' = [runner EXCEPT !.pc = "throttle", !.actions = <<>>]
    /\ hist' = [hist EXCEPT !.drain_len = 0, !.drain_put = FALSE]
    /\ UNCHANGED <<cvars, rt, conf, action_queue, running, run, pr, stream,
                   now>>

\* `t1 = time.time(); if t0 + action_throttle > t1: time.sleep(...)`: the
\* loop goes on at t0 + action_throttle, or later if that has passed
RunnerSleep ==
    /\ runner.pc = "throttle" /\ stream = "open"
    /\ now' = IF now < runner.t0 + ActionThrottle
              THEN runner.t0 + ActionThrottle ELSE now
    /\ runner' = [runner EXCEPT !.pc = "test"]
    /\ UNCHANGED <<cvars, rt, conf, action_queue, running, run, pr, stream,
                   out, hist>>

\* `for reads_chunk in reads:` gets the next inbound message
ProcessRecv(msg) ==
    /\ run = "processing" /\ pr.pc = "wait" /\ stream = "open"
    /\ hist.msgs < MaxMsgs
    /\ pr' = [pr EXCEPT !.pc = "chunk", !.todo = msg]
    /\ hist' = [hist EXCEPT !.msgs = @ + 1]
    /\ UNCHANGED <<cvars, rt, conf, action_queue, running, run, runner,
                   stream, out, now>>

ProcessStop_always ==
    /\ run = "processing" /\ pr.pc = "chunk" /\ pr.todo # <<>>
    /\ IF TRUE
       THEN /\ DoPutAction(pr.todo[1].channel, pr.todo[1].number,
                           "stop_further_data", TRUE)
       ELSE UNCHANGED <<action_queue, hist>>
    /\ pr' = [pr EXCEPT !.pc = "store", !.read_count = @ + 1]
    /\ UNCHANGED <<cvars, rt, conf, running, run, runner, stream, out, now>>

\* `for read_channel in reads_chunk.channels:` up to the one_chunk policy:
\* `read_count += 1` and
\* `if self.one_chunk: self.stop_receiving_read(read_channel, read.number)`
ProcessStop ==
    /\ run = "processing" /\ pr.pc = "chunk" /\ pr.todo # <<>>
    /\ IF conf.one_chunk
       THEN /\ DoPutAction(pr.todo[1].channel, pr.todo[1].number,
                           "stop_further_data", TRUE)
       ELSE UNCHANGED <<action_queue, hist>>
    /\ pr' = [pr EXCEPT !.pc = "store", !.read_count = @ + 1]
    /\ UNCHANGED <<cvars, rt, conf, running, run, runner, stream, out, now>>

\* the strand filter and `self.data_queue[read_channel] = read`
ProcessStore ==
    /\ run = "processing" /\ pr.pc = "store"
    /\ LET read == pr.todo[1]
       IN  IF KeepChunk(conf.filter_strands, read.classes)
           THEN DoSetItem(read.channel,
                          [number |-> read.number, start |-> total_puts + 1])
           ELSE /\ op' = [NoOp EXCEPT !.name = "filtered"]
                /\ UNCHANGED <<size, dict, missed, replaced, total_puts,
                               delivered, latest>>
    /\ pr' = [pr EXCEPT !.pc = "chunk", !.todo = Tail(@)]
    /\ UNCHANGED <<rt, conf, action_queue, running, run, runner, stream, out,
                   now, hist>>

\* The channels of the message are done: `if last_msg_time + 1 < now` the
\* interval report is made, which divides by read_count and then sets it to
\* 0; a ZeroDivisionError leaves _process_reads and run as any exception
\* does.  A second is a thousand throttle intervals, so whether one has
\* passed since the last report is an input, `due`.
ProcessReport(due) ==
    /\ run = "processing" /\ pr.pc = "chunk" /\ pr.todo = <<>>
    /\ IF due /\ pr.read_count = 0
       THEN /\ pr' = [pr EXCEPT !.pc = "none"]
            /\ run' = "raised"
       ELSE /\ pr' = [pr EXCEPT !.pc = "wait",
                                !.read_count = IF due THEN 0 ELSE @]
            /\ run' = run
    /\ UNCHANGED <<cvars, rt, conf, action_queue, running, runner, stream,
                   out, now, hist>>

\* client.reset(): the inbound half of the stream is cancelled
Reset ==
    /\ run = "processing" /\ stream = "open"
    /\ stream' = "cancelled"
    /\ UNCHANGED <<cvars, rt, conf, action_queue, running, run, runner, pr,
                   out, now, hist>>

\* the inbound stream ends (the sequencer closes it, or it was cancelled):
\* the for loop ends and _process_reads returns
ProcessEnd ==
    /\ run = "processing" /\ pr.pc = "wait"
    /\ stream \in {"open", "cancelled"}
    /\ stream' = IF stream = "open" THEN "closed" ELSE stream
    /\ pr' = [pr EXCEPT !.pc = "none"]
    /\ run' = "clear"
    /\ UNCHANGED <<cvars, rt, conf, action_queue, running, runner, out, now,
                   hist>>

\* the transport fails: `for reads_chunk in reads` raises, and nothing in
\* _process_reads or run catches it, so the exception leaves run before the
\* lines that reset
ProcessRaise ==
    /\ run = "processing" /\ pr.pc = "wait" /\ stream = "open"
    /\ stream' = "broken"
    /\ pr' = [pr EXCEPT !.pc = "none"]
    /\ run' = "raised"
    /\ UNCHANGED <<cvars, rt, conf, action_queue, running, runner, out, now,
                   hist>>

\* `self.running.clear()`
RunClear ==
    /\ run = "clear"
    /\ running' = FALSE
    /\ run' = "reset_queue"
    /\ UNCHANGED <<cvars, rt, conf, action_queue, runner, pr, stream, out,
                   now, hist>>

RunResetQueue_keep ==
    /\ run = "reset_queue"
    /\ action_queue' = action_queue
    /\ run' = "reset_cache"
    /\ hist' = [hist EXCEPT !.reset_id = hist.next_id]
    /\ UNCHANGED <<cvars, rt, conf, running, runner, pr, stream, out, now>>

\* `self.action_queue = queue.Queue()`
RunResetQueue ==
    /\ run = "reset_queue"
    /\ action_queue' = <<>>
    /\ run' = "reset_cache"
    /\ hist' = [hist EXCEPT !.reset_id = hist.next_id]
    /\ UNCHANGED <<cvars, rt, conf, running, runner, pr, stream, out, now>>

RunResetCache_stale ==
    /\ run = "reset_cache"
    /\ dict' = <<>>
    /\ missed' = missed
    /\ replaced' = replaced
    /\ op' = NoOp
    /\ run' = "returned"
    /\ UNCHANGED <<size, total_puts, delivered, latest, rt, conf,
                   action_queue, running, runner, pr, stream, out, now, hist>>

\* `self.data_queue = ReadCache(size=self.cache_size)`, and run returns
RunResetCache ==
    /\ run = "reset_cache"
    /\ dict' = <<>>
    /\ missed' = 0
    /\ replaced' = 0
    /\ op' = NoOp
    /\ run' = "returned"
    /\ UNCHANGED <<size, total_puts, delivered, latest, rt, conf,
                   action_queue, running, runner, pr, stream, out, now, hist>>

\* in these sessions the inbound messages come less than a second apart, so
\* no interval report is due
QuickDue == {FALSE}

\* _runner never looks inside an action, so the consumers make one kind of
\* call on one read
ConsumerReads == {[channel |-> 1, number |-> 7]}

NextRun ==
    \/ RunStart
    \/ RunnerSetup
    \/ RunnerResume
    \/ RunnerTest
    \/ RunnerGet
    \/ RunnerYield
    \/ RunnerSleep
    \/ \E r \in ConsumerReads : UnblockRead(r.channel, r.number)
    \/ \E msg \in InboundMsgs : ProcessRecv(msg)
    \/ ProcessStop
    \/ ProcessStore
    \/ \E due \in QuickDue : ProcessReport(due)
    \/ ProcessEnd
    \/ ProcessRaise
    \/ RunClear
    \/ RunResetQueue
    \/ RunResetCache

\* one_chunk and filter_strands are read only by _process_reads, run_time
\* and action_batch only by _runner: each pair is varied with the other at
\* DefaultConf
Confs ==
    {[DefaultConf EXCEPT !.one_chunk = o, !.filter_strands = f] :
        o \in BOOLEAN, f \in BOOLEAN}
    \cup
    {[DefaultConf EXCEPT !.run_time = r, !.action_batch = b] :
        r \in 0..MaxRunTime, b \in 1..MaxActionBatch}

InitRun == InitCache /\ size = MaxSize /\ InitClient /\ conf \in Confs

SpecRun == InitRun /\ [][NextRun]_vars

\* ---- the inbound half of a session ---------------------------------------
\* run and _process_reads with the consumers taking chunks, without the
\* outbound pump: messages of up to two channels, interval reports due or
\* not, the stream closed, cancelled or failing.
InChunksOn(c) == [channel : {c}, number : Numbers, classes : ClassLists]

InboundMsgsIn ==
    InboundMsgs \cup {<<c1, c2>> : c1 \in InChunksOn(1), c2 \in InChunksOn(2)}

NextIn ==
    \/ RunStart
    \/ \E msg \in InboundMsgsIn : ProcessRecv(msg)
    \/ ProcessStop
    \/ ProcessStore
    \/ \E due \in BOOLEAN : ProcessReport(due)
    \/ Reset
    \/ ProcessEnd
    \/ ProcessRaise
    \/ RunClear
    \/ RunResetQueue
    \/ RunResetCache
    \/ \E batch_size \in 0..MaxBatch : GetReadChunks(batch_size, TRUE)

ConfsIn ==
    {[DefaultConf EXCEPT !.one_chunk = o, !.filter_strands = f] :
        o \in BOOLEAN, f \in BOOLEAN}

InitIn == InitCache /\ InitClient /\ conf \in ConfsIn

SpecIn == InitIn /\ [][NextIn]_vars

\* ---- the setup message for every min_chunk_size --------------------------
ChunkSpan == 50

MinChunkSizes ==
    (ALLOWED_MIN_CHUNK_SIZE - ChunkSpan)..(ALLOWED_MIN_CHUNK_SIZE + ChunkSpan)
    \cup {DefaultMinChunkSize, 10000}

NextSetup ==
    \/ RunStart
    \/ RunnerSetup

InitSetup ==
    /\ InitCache /\ size = MaxSize /\ InitClient
    /\ conf \in {[DefaultConf EXCEPT !.min_chunk_size = m] : m \in MinChunkSizes}

SpecSetup == InitSetup /\ [][NextSetup]_vars

\* ---- properties -----------------------------------------------------------
Min(a, b) == IF a < b THEN a ELSE b
Range(f) == {f[i] : i \in 1..Len(f)}

\* C1: in every reachable state total_puts = delivered + missed + replaced +
\* resident: every chunk a put removes is counted once, in missed or replaced.
C1_Accounting == total_puts = delivered + missed + replaced + Len(dict)

\* C2: a put on a resident channel, at any fill level, adds 1 to replaced
\* (and nothing to missed) when the read numbers are equal, else 1 to missed
\* (and nothing to replaced), and leaves the cache length as it was.
C2_ResidentPut ==
    [][\A key \in Channels, number \in Numbers :
         (op'.name = "setitem" /\ key \in Keys(dict) /\ SetItem(key, number)) =>
            /\ IF OD_getitem(dict, key).number = number
               THEN replaced' = replaced + 1 /\ missed' = missed
               ELSE missed' = missed + 1 /\ replaced' = replaced
            /\ Len(dict') = Len(dict)]_vars

\* C3: a put on a resident channel evicts no other channel: the resident
\* channels are the same after it and every other channel keeps its chunk.
C3_ResidentPutFrame ==
    [][\A key \in Channels, number \in Numbers :
         (op'.name = "setitem" /\ key \in Keys(dict) /\ SetItem(key, number)) =>
            /\ Keys(dict') = Keys(dict)
            /\ \A k \in Keys(dict) \ {key} :
                  OD_getitem(dict', k) = OD_getitem(dict, k)]_vars

\* C4: 0 <= |cache| <= N in every state, also at the lengths the dict passes
\* through inside a put, and no channel is a key twice.
C4_Bounded ==
    /\ Len(dict) \in 0..size
    /\ \A l \in op.lens : l \in 0..size
    /\ \A i, j \in 1..Len(dict) : dict[i].key = dict[j].key => i = j

\* a put into a full cache has evicted an entry and left the cache full
C4_Witness ==
    /\ op.name = "setitem" /\ Len(dict) = size
    /\ total_puts > size /\ missed > 0

\* C5: newest wins: whatever a pop returns for a channel is the chunk of the
\* last put on that channel, and so is whatever is resident; a chunk put
\* before a later put on its channel is never returned after that put.
C5_NewestWins ==
    /\ \A i \in 1..Len(dict) : dict[i].value.start = latest[dict[i].key]
    /\ \A i \in 1..Len(op.ret) : op.ret[i].value.start = latest[op.ret[i].key]

\* two puts on one channel (a cache of size 2 counts nothing otherwise), then
\* a consumer's get_read_chunks returned the second chunk
C5_Witness ==
    /\ size = 2 /\ total_puts = 2 /\ missed + replaced = 1
    /\ op.name = "get_read_chunks"
    /\ Len(op.ret) = 1 /\ op.ret[1].value.start = 2

\* C6: a put of a channel that is not resident into a full cache evicts
\* exactly the oldest entry, adds 1 to missed and nothing to replaced, and
\* leaves the cache full with the new channel as its newest entry.
C6_EvictOldest ==
    [][\A key \in Channels, number \in Numbers :
         (/\ op'.name = "setitem"
          /\ key \notin Keys(dict) /\ Len(dict) = size
          /\ SetItem(key, number)) =>
            /\ dict' = Append(Tail(dict),
                              [key |-> key,
                               value |-> [number |-> number,
                                          start |-> total_puts + 1]])
            /\ missed' = missed + 1
            /\ replaced' = replaced
            /\ Len(dict') = size]_vars

\* N = 1, two puts on distinct channels: the second is resident, missed = 1
C6_Witness ==
    /\ size = 1 /\ total_puts = 2 /\ delivered = 0 /\ op.name = "setitem"
    /\ \E c1, c2 \in Channels : c1 # c2 /\ latest[c1] = 1 /\ latest[c2] = 2
                                /\ Keys(dict) = {c2}
    /\ missed = 1 /\ replaced = 0

\* C7: get_read_chunks returns the oldest entries, oldest first, when called
\* with last = FALSE and the newest entries, newest first, with last = TRUE.
C7_HonoursLast ==
    [][\A batch_size \in 0..MaxBatch, last \in BOOLEAN :
         (/\ op'.name = "get_read_chunks"
          /\ Len(dict) >= 2
          /\ GetReadChunks(batch_size, last)) =>
            \A i \in 1..Len(op'.ret) :
                op'.ret[i] = IF last THEN dict[Len(dict) + 1 - i]
                             ELSE dict[i]]_vars

\* C8: get_read_chunks(k) does not fail, returns min(k, |cache|) entries,
\* removes exactly those, leaves missed and replaced alone, and with k = 0
\* or an empty cache returns nothing and changes nothing.
C8_BatchPop ==
    [][\A batch_size \in 0..MaxBatch, last \in BOOLEAN :
         (op'.name = "get_read_chunks" /\ GetReadChunks(batch_size, last)) =>
            /\ op'.err = "none"
            /\ Len(op'.ret) = Min(batch_size, Len(dict))
            /\ Range(op'.ret) \subseteq Range(dict)
            /\ Range(dict') = Range(dict) \ Range(op'.ret)
            /\ Len(dict') = Len(dict) - Len(op'.ret)
            /\ missed' = missed /\ replaced' = replaced /\ size' = size
            /\ (batch_size = 0 \/ dict = <<>>) =>
                  op'.ret = <<>> /\ dict' = dict]_vars

\* get_read_chunks emptied a cache of two entries
C8_Witness ==
    /\ op.name = "get_read_chunks" /\ op.err = "none"
    /\ Len(op.ret) = 2 /\ dict = <<>> /\ total_puts = 2

\* C9: popitem on an empty cache fails with KeyError and changes neither the
\* cache nor the counters; on a non-empty cache it removes and returns one
\* entry, the newest with last = TRUE and the oldest with last = FALSE.
C9_PopOne ==
    [][\A last \in BOOLEAN :
         (op'.name = "popitem" /\ PopItem(last)) =>
            IF dict = <<>>
            THEN /\ op'.err = "KeyError" /\ op'.ret = <<>>
                 /\ dict' = dict /\ missed' = missed /\ replaced' = replaced
            ELSE /\ op'.err = "none"
                 /\ op'.ret = <<IF last THEN dict[Len(dict)] ELSE dict[1]>>
                 /\ dict' = IF last THEN SubSeq(dict, 1, Len(dict) - 1)
                            ELSE Tail(dict)
                 /\ missed' = missed /\ replaced' = replaced]_vars

\* popitem returned the older of two entries, as last = FALSE asks
C9_Witness ==
    /\ op.name = "popitem" /\ op.err = "none"
    /\ Len(op.ret) = 1 /\ Len(dict) = 1
    /\ op.ret[1].value.start < dict[1].value.start

\* C10: from a cache that is not full and does not hold c, the sequence
\* put(c, x); pop_one(); put(c, x); pop_one() returns (c, x) both times and
\* leaves missed, replaced and the rest of the cache as they were.
C10_RoundTrip ==
    /\ rt.pc \in {2, 3, 4} => rt.first = <<[key |-> rt.key, value |-> rt.value]>>
    /\ rt.pc = 4 =>
          /\ rt.second = <<[key |-> rt.key, value |-> rt.value]>>
          /\ dict = rt.pre.dict
          /\ missed = rt.pre.missed
          /\ replaced = rt.pre.replaced

\* the sequence ran to its end on a cache that held another channel
C10_Witness == rt.pc = 4 /\ rt.pre.dict # <<>>

\* ---- properties of the session --------------------------------------------
RECURSIVE Flatten(_)
\* the actions of the messages msgs, in the order they went out
Flatten(msgs) ==
    IF msgs = <<>> THEN <<>> ELSE Head(msgs).actions \o Flatten(Tail(msgs))

Emitted == Flatten(out)
EmittedIds == {a.id : a \in Range(Emitted)}
Setups == {i \in 1..Len(out) : out[i].type = "setup"}

\* C11: the outbound stream carries exactly one setup message, it is the
\* first message, and every Actions message comes after it: no message goes
\* out before _runner has sent the setup, and from then on the stream is one
\* setup followed by Actions messages only.
C11_SetupFirst ==
    /\ runner.pc \in {"none", "start"} => out = <<>>
    /\ runner.pc \notin {"none", "start"} =>
          /\ Setups = {1}
          /\ \A i \in 2..Len(out) : out[i].type = "actions"

\* a setup followed by two Actions messages, with an action still queued
C11_Witness ==
    /\ Len(out) = 3
    /\ out[2].type = "actions" /\ out[3].type = "actions"
    /\ action_queue # <<>>

\* C12: actions go out in enqueue order: of two emitted actions the one put
\* on the queue first (the smaller id) comes first on the outbound stream, in
\* an earlier message or earlier in the same message.
C12_EnqueueOrder ==
    \A i, j \in 1..Len(Emitted) : i < j => Emitted[i].id < Emitted[j].id

\* two actions in one message and a third in a later one, enqueued by both
\* the consumers and _process_reads
C12_Witness ==
    /\ Len(Emitted) >= 3
    /\ \E i \in 1..Len(out) : Len(out[i].actions) >= 2
    /\ EmittedIds \cap hist.stops # {}
    /\ EmittedIds \ hist.stops # {}

\* C13: every Actions message carries at least 1 and at most action_batch
\* actions, and a drain during which nothing is enqueued takes
\* min(q, action_batch) of the q actions queued when it began.
C13_Batching ==
    /\ \A i \in 1..Len(out) :
          out[i].type = "actions" =>
             /\ Len(out[i].actions) >= 1
             /\ Len(out[i].actions) <= conf.action_batch
    /\ (runner.pc = "emit" /\ ~hist.drain_put) =>
          Len(runner.actions) = Min(hist.drain_len, conf.action_batch)

\* more actions queued than action_batch: a full message, then the rest
C13_Witness ==
    /\ conf.action_batch >= 2
    /\ \E i \in 2..(Len(out) - 1) :
          /\ Len(out[i].actions) = conf.action_batch
          /\ Len(out[i + 1].actions) < conf.action_batch
          /\ out[i + 1].actions[1].id = out[i].actions[conf.action_batch].id + 1

\* C14: no iteration of the outbound loop begins later than
\* timeout_pt = session start + run_time: t0, read as an iteration begins,
\* is never past the deadline.
C14_Deadline ==
    runner.pc \in {"drain", "emit", "throttle"} => runner.t0 <= runner.timeout_pt

\* C15: with run_time = 0 the outbound stream is the setup message and
\* nothing else: the loop is never entered, and when the generator has ended
\* the stream holds exactly the setup message.
C15_ZeroRunTime ==
    conf.run_time = 0 =>
       /\ runner.pc \notin {"drain", "emit", "throttle"}
       /\ \A i \in 1..Len(out) : out[i].type = "setup"
       /\ runner.pc = "done" => (Len(out) = 1 /\ out[1].type = "setup")

\* the generator has ended with actions still on the queue
C15_Witness ==
    /\ conf.run_time = 0
    /\ runner.pc = "done"
    /\ Len(action_queue) >= 2

QueueIds == {a.id : a \in Range(action_queue)}
BatchIds == {a.id : a \in Range(runner.actions)}

C17_OneStop ==
    /\ [][(pr.pc = "chunk" /\ pr'.pc = "store") =>
             /\ dict' = dict /\ total_puts' = total_puts
             /\ IF conf.one_chunk
                THEN /\ action_queue' =
                          Append(action_queue,
                                 [id |-> hist.next_id,
                                  channel |-> pr.todo[1].channel,
                                  number |-> pr.todo[1].number,
                                  kind |-> "stop_further_data"])
                     /\ hist'.stops = hist.stops \cup {hist.next_id}
                ELSE action_queue' = action_queue]_vars
    /\ [][(pr.pc = "store" /\ pr'.pc = "chunk") =>
             (action_queue' = action_queue /\ hist'.stops = hist.stops)]_vars
    /\ [](~conf.one_chunk => hist.stops = {})

\* the action is on the queue and the chunk, which the filter will drop, is
\* about to be offered to the cache
C17_Witness ==
    /\ conf.one_chunk /\ conf.filter_strands
    /\ pr.pc = "store"
    /\ pr.todo[1].classes = <<77>>
    /\ action_queue # <<>>
    /\ action_queue[Len(action_queue)].id \in hist.stops
    /\ action_queue[Len(action_queue)].number = pr.todo[1].number

StrandNames == {"strand", "strand1", "adapter", "unavailable"}

\* C18: a chunk is put into the cache iff filter_strands is off or one of its
\* classification codes maps to strand, strand1, adapter or unavailable; a
\* code outside the class map counts as not strand-like and raises nothing;
\* a chunk filtered out leaves the cache, missed and replaced as they were.
C18_Filter ==
    [][(pr.pc = "store" /\ pr'.pc = "chunk") =>
          LET read == pr.todo[1]
              keep == \/ ~conf.filter_strands
                      \/ \E i \in 1..Len(read.classes) :
                            /\ read.classes[i] \in DOMAIN read_classes
                            /\ read_classes[read.classes[i]] \in StrandNames
          IN  /\ op'.err = "none"
              /\ run' = run
              /\ IF keep
                 THEN /\ read.channel \in Keys(dict')
                      /\ OD_getitem(dict', read.channel).number = read.number
                      /\ total_puts' = total_puts + 1
                 ELSE /\ dict' = dict
                      /\ missed' = missed
                      /\ replaced' = replaced
                      /\ total_puts' = total_puts]_vars

\* a chunk was filtered out and _process_reads went on
C18_Witness ==
    /\ conf.filter_strands
    /\ op.name = "filtered"
    /\ pr.pc = "wait"
    /\ total_puts = 0

\* C19: when the inbound stream has failed and run has exited, is_running is
\* false and the action queue and the cache are empty.
C19_BrokenStreamResets ==
    run = "raised" => (~running /\ action_queue = <<>> /\ dict = <<>>)

\* C20, as the code has it: is_running is true from the start of run until
\* the stream has been processed; when run returns is_running is false, the
\* cache is empty and the queue holds only what was enqueued after run
\* replaced it.
C20_AfterRun ==
    /\ [](run \in {"processing", "clear"} => running)
    /\ [][(run # "returned" /\ run' = "returned") =>
             /\ ~running'
             /\ dict' = <<>>
             /\ \A i \in 1..Len(action_queue') :
                   action_queue'[i].id >= hist'.reset_id]_vars

\* run has returned from a session that stored a chunk and emitted actions,
\* with an action enqueued since the reset on the new queue
C20_Witness ==
    /\ run = "returned"
    /\ total_puts > 0
    /\ Emitted # <<>>
    /\ action_queue # <<>>

\* C20, as stated: when run returns is_running is false, the action queue is
\* empty and the cache is empty.
C20_EmptyAfterRun ==
    /\ [](run \in {"processing", "clear"} => running)
    /\ [][(run # "returned" /\ run' = "returned") =>
             (~running' /\ action_queue' = <<>> /\ dict' = <<>>)]_vars

\* C26: a put on a resident channel c leaves c the newest entry: the entry
\* (c, x) is last in insertion order, so last in line for eviction, no other
\* entry has key c, and a pop_one(newest) made next returns (c, x).
C26_ReinsertNewest ==
    /\ rt.pc = 5 =>
          /\ dict # <<>>
          /\ dict[Len(dict)] = [key |-> rt.key, value |-> rt.value]
          /\ \A i \in 1..(Len(dict) - 1) : dict[i].key # rt.key
    /\ rt.pc = 6 => rt.first = <<[key |-> rt.key, value |-> rt.value]>>

\* the channel was resident and not the newest when it was put again
C26_Witness ==
    /\ rt.pc = 6
    /\ Len(rt.pre.dict) = 2
    /\ rt.pre.dict[1].key = rt.key

\* C29: with the producer and the consumers interleaved in any way a stored
\* chunk is returned by at most one call: a call that returns a chunk takes
\* it out of the cache, the chunks in the cache are distinct and older than
\* any chunk a later put stores, and one batch has each channel at most once.
C29_DeliveredOnce ==
    /\ [](\A i, j \in 1..Len(dict) :
             /\ dict[i].value.start <= total_puts
             /\ dict[i].value.start = dict[j].value.start => i = j)
    /\ [][op'.name \in {"popitem", "popitems", "get_read_chunks"} =>
             /\ \A i \in 1..Len(op'.ret) :
                   /\ op'.ret[i] \in Range(dict)
                   /\ op'.ret[i] \notin Range(dict')
                   /\ \A j \in 1..Len(op'.ret) :
                         op'.ret[i].key = op'.ret[j].key => i = j
             /\ Len(dict') = Len(dict) - Len(op'.ret)
             /\ delivered' = delivered + Len(op'.ret)]_vars
    /\ [][op'.name = "setitem" =>
             \A i \in 1..Len(dict') :
                dict'[i] \in Range(dict) \/ dict'[i].value.start = total_puts + 1]_vars

\* three chunks stored and all three delivered, the last two in one batch
C29_Witness ==
    /\ op.name = "get_read_chunks"
    /\ Len(op.ret) = 2
    /\ delivered = 3
    /\ total_puts = 3

\* C21: a session starts with an empty action queue and an empty cache,
\* whatever facade calls were made before run.
C21_FreshAtStart ==
    [][(run = "idle" /\ run' = "processing") =>
          (action_queue' = <<>> /\ dict' = <<>>)]_vars

\* C22, as stated: a drain that runs with nothing enqueued meanwhile removes
\* every action that was on the queue.
C22_DrainAll ==
    [][(runner.pc = "drain" /\ runner'.pc = "emit" /\ ~hist.drain_put) =>
          action_queue' = <<>>]_vars

\* C22, as the code has it: a drain takes the oldest min(q, action_batch) of
\* the q actions queued, so it empties a queue of at most action_batch
\* actions and leaves the newer ones of a longer queue for later drains; an
\* action taken off the queue is never on it again.
C22_DrainOldest ==
    /\ [][(runner.pc = "drain" /\ runner'.pc = "emit" /\ ~hist.drain_put) =>
            /\ Len(action_queue') = hist.drain_len - Len(runner'.actions)
            /\ hist.drain_len <= conf.action_batch => action_queue' = <<>>
            /\ hist.drain_len > conf.action_batch =>
                  Len(action_queue') = hist.drain_len - conf.action_batch
            /\ \A a \in Range(runner'.actions), b \in Range(action_queue') :
                  a.id < b.id]_vars
    /\ [](QueueIds \cap (BatchIds \cup EmittedIds) = {})

\* a drain of a queue longer than action_batch has left an action on the
\* queue
C22_Witness ==
    /\ runner.pc = "emit" /\ ~hist.drain_put
    /\ hist.drain_len > conf.action_batch
    /\ Len(runner.actions) = conf.action_batch
    /\ action_queue # <<>>

\* C23, as stated: missed and replaced never decrease.
C23_Monotonic ==
    [][missed' >= missed /\ replaced' >= replaced]_vars

\* C23, as the code has it: missed and replaced never decrease while the
\* cache is the same, and are 0 again when run replaces the cache at the end
\* of a session.
C23_MonotonicInSession ==
    [][IF run = "reset_cache" /\ run' = "returned"
       THEN missed' = 0 /\ replaced' = 0 /\ dict' = <<>>
       ELSE missed' >= missed /\ replaced' >= replaced]_vars

\* run has returned from a session in which a chunk was missed
C23_Witness ==
    /\ run = "returned"
    /\ size = 1 /\ total_puts = 2 /\ delivered = 0
    /\ missed = 0 /\ replaced = 0

\* C24: once reset has been called in a running session the session ends
\* with is_running false: run is not left by an exception, which would keep
\* is_running true for good.
C24_ResetEndsSession ==
    stream = "cancelled" => (run # "raised" /\ (run = "returned" => ~running))

\* C25: the setup message carries min(min_chunk_size, 4000): 4000 for a
\* larger request, the request itself otherwise.
C25_Clamp ==
    \A i \in 1..Len(out) :
       out[i].type = "setup" =>
          /\ out[i].sample_minimum_chunk_size = Min(conf.min_chunk_size, 4000)
          /\ conf.min_chunk_size <= 4000 =>
                out[i].sample_minimum_chunk_size = conf.min_chunk_size

\* a request of 10000 went out as 4000
C25_Witness ==
    /\ conf.min_chunk_size = 10000
    /\ out # <<>>
    /\ out[1].sample_minimum_chunk_size = 4000

\* C27: run returns with is_running false: it is not left by an exception
\* unless the transport has failed.
C27_RunReturns ==
    /\ run = "raised" => stream = "broken"
    /\ run = "returned" => ~running

\* C28: processing an inbound message, whatever it holds and whether or not
\* the interval report is due, does not end the session with an error.
C28_BatchNeverFatal ==
    [][(run = "processing" /\ pr.pc \in {"chunk", "store"}) =>
          run' = "processing"]_vars

\* C30: every emitted action was enqueued with the same id, channel, read
\* number and kind, no enqueued action is emitted twice and no two emitted
\* actions have the same id.
C30_EmittedWereEnqueued ==
    /\ Range(Emitted) \subseteq hist.puts
    /\ Cardinality(EmittedIds) = Len(Emitted)
    /\ \A a, b \in hist.puts : a.id = b.id => a = b

\* actions of both kinds, from a consumer and from the one_chunk policy, have
\* gone out
C30_Witness ==
    /\ Len(Emitted) >= 2
    /\ \E a, b \in Range(Emitted) :
          a.kind = "unblock" /\ b.kind = "stop_further_data"

====
